---- MODULE Spec2Model ----
(***************************************************************************)
(* The asset-allocation page of legacywallet                              *)
(* (src/src/pages/AssetManagement.tsx) over the asset_allocations table   *)
(* (src/supabase/migrations/20260108125003_*.sql).                        *)
(*                                                                         *)
(* Numbers are held in thousandths of a percent (100% = 100000), so that  *)
(* the DECIMAL(5,2) column's rounding to hundredths is a real conversion. *)
(* The percentage strings of PctStrings are integers, on which the        *)
(* double-precision sum of getTotalPercentage is exact.                   *)
(*                                                                         *)
(* The handlers are modelled as the functions they are: saveAllocations   *)
(* takes whatever rows the edit buffer holds.  One call runs per page at a *)
(* time (the Save button is disabled while `saving`), and the buffer is   *)
(* edited only between calls: a running call reads the rows and the asset *)
(* its closure captured when it started, never the later buffer.          *)
(*                                                                         *)
(* Further down: the modal as it is rendered, with the guards of its      *)
(* controls, under SpecUI; the wills (CreateChatWill.tsx, CreateVideoWill, *)
(* ReviewWill.tsx and the edge function notify-recipients), under          *)
(* SpecWill, SpecWillTabs and SpecReviewTabs; the store behind its         *)
(* row-level policies and foreign keys, under SpecStore; commits next to   *)
(* deletions of assets and recipients, under SpecDeletions.                *)
(***************************************************************************)
EXTENDS Integers, Sequences, FiniteSets, Bags, TLC

VARIABLES
    public_assets,       \* the table assets: the ids of the user's assets
    asset_allocations,   \* the table: a bag of [asset_id, recipient_id, allocation_percentage]
    tabs,                \* the pages (browser tabs) that are open
    assets,              \* per page: the allocation rows held in its `assets` state
    selectedAsset,       \* per page: the asset of the allocation modal, or NoAsset (null)
    allocations,         \* per page: the edit buffer, a sequence of [recipientId, percentage]
    showAllocationModal, \* per page
    saving,              \* per page
    pc,                  \* per page: where its saveAllocations call stands
    call,                \* per page: [asset, rows] captured by the running or last call
    toasts,              \* per page: the toasts of the running or last call, in order
    issued,              \* per page: the store writes that call has issued
    faults,              \* per page: the store requests of that call that failed
    pre,                 \* per page: the table when that call started
    clicked,             \* per page: "removeAllocationRow" when that was the handler called last
    public_wills,        \* the table wills: rows [id, user_id, type, status], latest updated_at first
    public_recipients,   \* the table recipients: rows [id, user_id, email]
    assets_user_id,      \* the column user_id of the table assets, per asset id
    location,            \* per tab: the route it shows
    wpc,                 \* per tab: where its handleSaveAndContinue or handleSubmit call stands
    existingWill,        \* per tab: what the lookup of handleSaveAndContinue returned
    review,              \* per tab: the state of ReviewWill ([will, recipients, agreed])
    notified,            \* per tab: the last run of notify-recipients ([invoked, sends, response])
    request,             \* the last request made to the store's API ([by, op, table, cascaded, error])
    received             \* what the last select returned ([to, owners])

allocationVars == <<assets, selectedAsset, allocations, showAllocationModal, saving, pc,
                    call, issued, faults, pre, clicked>>
willVars == <<location, wpc, existingWill, review, notified>>
apiVars == <<request, received>>
lifeVars == <<public_wills, public_recipients, assets_user_id, location, wpc, existingWill,
              review, notified, request, received>>

vars == <<public_assets, asset_allocations, tabs, assets, selectedAsset, allocations,
          showAllocationModal, saving, pc, call, toasts, issued, faults, pre, clicked,
          public_wills, public_recipients, assets_user_id, location, wpc, existingWill,
          review, notified, request, received>>

----------------------------------------------------------------------------
(* Bounds and domains *)

MaxRows == 2

Tab == {"T1", "T2"}
AssetIds == {"A1", "A2"}
recipients == <<"R1", "R2">>   \* the page's recipients, ordered by full_name
RecipientIds == {recipients[i] : i \in DOMAIN recipients}
PctStrings == {"", "abc", "0", "-50", "150", "50", "100"}

NoAsset == "null"
NoCall == [asset |-> NoAsset, rows |-> <<>>]

(* The toasts of saveAllocations and fetchData *)
MsgNotComplete == "Allocations must total 100%"
MsgInvalidPercentage == "Each allocation must be between 1% and 100%"
MsgFailed == "Failed to save allocations"
MsgAllAssigned == "All recipients have been assigned"
MsgSaved == "Allocations saved"
MsgLoadFailed == "Failed to load data"

----------------------------------------------------------------------------
(* Numbers *)

NaN == [nan |-> TRUE, v |-> 0]
Num(n) == [nan |-> FALSE, v |-> n]
isNaN(x) == x.nan

(* parseFloat on the strings of PctStrings, in thousandths *)
parseFloat(s) ==
    CASE s = "0" -> Num(0)
      [] s = "-50" -> Num(-50000)
      [] s = "150" -> Num(150000)
      [] s = "50" -> Num(50000)
      [] s = "100" -> Num(100000)
      [] OTHER -> NaN

(* Number.prototype.toString of a stored percentage: its shortest decimal form *)
toString(n) ==
    CASE n = 0 -> "0"
      [] n = -50000 -> "-50"
      [] n = 150000 -> "150"
      [] n = 50000 -> "50"
      [] n = 100000 -> "100"

(* x || 0 *)
OrZero(x) == IF isNaN(x) \/ x.v = 0 THEN 0 ELSE x.v

(* The cast to DECIMAL(5,2): round to hundredths, half away from zero *)
ToDecimal52(n) ==
    IF n >= 0 THEN ((n + 5) \div 10) * 10 ELSE 0 - (((0 - n) + 5) \div 10) * 10

----------------------------------------------------------------------------
(* Bags of rows *)

Range(s) == {s[i] : i \in DOMAIN s}
BagOfSeq(s) == [x \in Range(s) |-> Cardinality({i \in DOMAIN s : s[i] = x})]
Orderings(b) ==
    {s \in [1..BagCardinality(b) -> BagToSet(b)] : BagOfSeq(s) = b}

(* .eq("asset_id", a) *)
RowsOfAsset(table, a) ==
    [r \in {x \in BagToSet(table) : x.asset_id = a} |-> table[r]]
RowsNotOfAsset(table, a) ==
    [r \in {x \in BagToSet(table) : x.asset_id # a} |-> table[r]]

----------------------------------------------------------------------------
(* The table asset_allocations *)

(* The column type of allocation_percentage applied to the rows of an insert *)
CastRows(rows) ==
    [i \in DOMAIN rows |->
        [rows[i] EXCEPT !.allocation_percentage = ToDecimal52(rows[i].allocation_percentage)]]

(* The table without its CHECK constraint *)
CheckViolation_Dropped(rows) == FALSE

(* CHECK (allocation_percentage > 0 AND allocation_percentage <= 100) *)
CheckViolation(rows) ==
    \E i \in DOMAIN rows :
        ~(rows[i].allocation_percentage > 0 /\ rows[i].allocation_percentage <= 100000)

SamePair(r1, r2) ==
    r1.asset_id = r2.asset_id /\ r1.recipient_id = r2.recipient_id

(* The table without its UNIQUE constraint *)
UniqueViolation_Dropped(table, rows) == FALSE

(* UNIQUE(asset_id, recipient_id) *)
UniqueViolation(table, rows) ==
    \/ \E i, j \in DOMAIN rows : i # j /\ SamePair(rows[i], rows[j])
    \/ \E i \in DOMAIN rows : \E r \in BagToSet(table) : SamePair(rows[i], r)

(* asset_id REFERENCES assets(id), recipient_id REFERENCES recipients(id) *)
ForeignKeyViolation(rows) ==
    \E i \in DOMAIN rows :
        \/ rows[i].asset_id \notin public_assets
        \/ rows[i].recipient_id \notin {x.id : x \in public_recipients}

(* The SQLSTATE an insert of `rows` ends with: one statement, all rows or none *)
InsertError(table, rows) ==
    IF CheckViolation(CastRows(rows)) THEN "23514"
    ELSE IF UniqueViolation(table, CastRows(rows)) THEN "23505"
    ELSE IF ForeignKeyViolation(rows) THEN "23503"
    ELSE "none"

----------------------------------------------------------------------------
(* Validation in saveAllocations *)

RECURSIVE SumFrom(_, _)
SumFrom(rows, i) ==
    IF i > Len(rows) THEN 0
    ELSE OrZero(parseFloat(rows[i].percentage)) + SumFrom(rows, i + 1)

getTotalPercentage(rows) == SumFrom(rows, 1)

(* The total checked only when there are several rows *)
SumMismatch_SeveralRows(rows) == Len(rows) > 1 /\ getTotalPercentage(rows) # 100000

(* allocations.length > 0 && total !== 100 *)
SumMismatch(rows) == Len(rows) > 0 /\ getTotalPercentage(rows) # 100000

(* The range check with pct < 0 in place of pct <= 0 *)
InvalidPercentage_ZeroAllowed(a) ==
    LET pct == parseFloat(a.percentage)
    IN  a.percentage = "" \/ isNaN(pct) \/ pct.v < 0 \/ pct.v > 100000

(* !a.percentage || isNaN(pct) || pct <= 0 || pct > 100 *)
InvalidPercentage(a) ==
    LET pct == parseFloat(a.percentage)
    IN  a.percentage = "" \/ isNaN(pct) \/ pct.v <= 0 \/ pct.v > 100000

(* The toast validation ends with, or "ok" *)
Validate(rows) ==
    IF SumMismatch(rows) THEN MsgNotComplete
    ELSE IF \E i \in DOMAIN rows : InvalidPercentage(rows[i]) THEN MsgInvalidPercentage
    ELSE "ok"

(* The rows handed to insert() *)
InsertPayload(a, rows) ==
    [i \in DOMAIN rows |->
        [asset_id |-> a,
         recipient_id |-> rows[i].recipientId,
         allocation_percentage |-> parseFloat(rows[i].percentage).v]]

----------------------------------------------------------------------------
(* The state after the page has loaded *)

(* The users, the pages of a tab, and what the new variables start as *)
Users == {"U1", "U2"}
user == "U1"   \* the signed-in user of the pages (useAuth)
Null == "null"
Emails == {Null, "", "r@example.com"}
Pages == {"Dashboard", "CreateChatWill", "CreateVideoWill", "AssetManagement",
          "Recipients", "ReviewWill", "Confirmation"}
will_status == <<"draft", "in_progress", "review", "completed">>

NoWill == [id |-> 0, user_id |-> Null, type |-> Null, status |-> Null]
NoReview == [will |-> NoWill, recipients |-> 0, agreed |-> FALSE]
NoResponse == [status |-> 0, sent |-> 0, hasTotal |-> FALSE, total |-> 0]
NoRun == [invoked |-> FALSE, sends |-> EmptyBag, response |-> NoResponse]
NoRequest == [by |-> Null, op |-> Null, table |-> Null, cascaded |-> 0, error |-> "none"]
NoReceived == [to |-> Null, owners |-> {}]

InitWillPages(page) ==
    /\ location = [t \in Tab |-> page]
    /\ wpc = [t \in Tab |-> "idle"]
    /\ existingWill = [t \in Tab |-> NoWill.id]
    /\ review = [t \in Tab |-> NoReview]
    /\ notified = [t \in Tab |-> NoRun]

InitApi ==
    /\ request = NoRequest
    /\ received = NoReceived

InitPages(owned, open) ==
    /\ public_assets = owned
    /\ asset_allocations = EmptyBag
    /\ tabs = open
    /\ assets = [t \in Tab |-> EmptyBag]
    /\ selectedAsset = [t \in Tab |-> NoAsset]
    /\ allocations = [t \in Tab |-> <<>>]
    /\ showAllocationModal = [t \in Tab |-> FALSE]
    /\ saving = [t \in Tab |-> FALSE]
    /\ pc = [t \in Tab |-> "idle"]
    /\ call = [t \in Tab |-> NoCall]
    /\ toasts = [t \in Tab |-> <<>>]
    /\ issued = [t \in Tab |-> {}]
    /\ faults = [t \in Tab |-> {}]
    /\ pre = [t \in Tab |-> EmptyBag]
    /\ clicked = [t \in Tab |-> "none"]
    /\ public_wills = <<>>
    /\ public_recipients = {[id |-> r, user_id |-> user, email |-> "r@example.com"] : r \in RecipientIds}
    /\ assets_user_id = [a \in owned |-> user]
    /\ InitWillPages("AssetManagement")
    /\ InitApi

(* One page of a user with one asset *)
Init == InitPages({"A1"}, {"T1"})

(* What the page forgets of its last call when the user acts again *)
ForgetCall(t) ==
    /\ call' = [call EXCEPT ![t] = NoCall]
    /\ toasts' = [toasts EXCEPT ![t] = <<>>]
    /\ issued' = [issued EXCEPT ![t] = {}]
    /\ faults' = [faults EXCEPT ![t] = {}]
    /\ pre' = [pre EXCEPT ![t] = EmptyBag]

Idle(t) == t \in tabs /\ pc[t] = "idle"

----------------------------------------------------------------------------
(* The handlers of the edit buffer *)

openAllocationModal(t, a) ==
    /\ Idle(t)
    /\ a \in public_assets
    /\ \E order \in Orderings(RowsOfAsset(assets[t], a)) :
          allocations' = [allocations EXCEPT ![t] =
              [i \in DOMAIN order |->
                  [recipientId |-> order[i].recipient_id,
                   percentage |-> toString(order[i].allocation_percentage)]]]
    /\ selectedAsset' = [selectedAsset EXCEPT ![t] = a]
    /\ showAllocationModal' = [showAllocationModal EXCEPT ![t] = TRUE]
    /\ ForgetCall(t)
    /\ clicked' = [clicked EXCEPT ![t] = "none"]
    /\ UNCHANGED <<public_assets, asset_allocations, tabs, assets, saving, pc>>
    /\ UNCHANGED lifeVars

closeAllocationModal(t) ==
    /\ Idle(t)
    /\ showAllocationModal[t]
    /\ showAllocationModal' = [showAllocationModal EXCEPT ![t] = FALSE]
    /\ ForgetCall(t)
    /\ clicked' = [clicked EXCEPT ![t] = "none"]
    /\ UNCHANGED <<public_assets, asset_allocations, tabs, assets, selectedAsset, allocations, saving, pc>>
    /\ UNCHANGED lifeVars

Assigned(rows, r) == \E i \in DOMAIN rows : rows[i].recipientId = r
availableRecipients(rows) ==
    LET free(r) == ~Assigned(rows, r) IN SelectSeq(recipients, free)

(* The buffer holds MaxRows rows at most *)
addAllocationRow(t) ==
    /\ Idle(t)
    /\ showAllocationModal[t]
    /\ IF Len(availableRecipients(allocations[t])) = 0
       THEN /\ toasts' = [toasts EXCEPT ![t] = <<MsgAllAssigned>>]
            /\ UNCHANGED allocations
       ELSE /\ Len(allocations[t]) < MaxRows
            /\ allocations' = [allocations EXCEPT ![t] =
                  Append(@, [recipientId |-> availableRecipients(allocations[t])[1],
                             percentage |-> ""])]
            /\ toasts' = [toasts EXCEPT ![t] = <<>>]
    /\ call' = [call EXCEPT ![t] = NoCall]
    /\ issued' = [issued EXCEPT ![t] = {}]
    /\ faults' = [faults EXCEPT ![t] = {}]
    /\ pre' = [pre EXCEPT ![t] = EmptyBag]
    /\ clicked' = [clicked EXCEPT ![t] = "none"]
    /\ UNCHANGED <<public_assets, asset_allocations, tabs, assets, selectedAsset, showAllocationModal, saving, pc>>
    /\ UNCHANGED lifeVars

(* removeAllocationRow keeping the row when the rest would not total 100 *)
removeAllocationRow_Revalidated(t, index) ==
    /\ Idle(t)
    /\ showAllocationModal[t]
    /\ index \in DOMAIN allocations[t]
    /\ LET rest == SubSeq(allocations[t], 1, index - 1)
                      \o SubSeq(allocations[t], index + 1, Len(allocations[t]))
       IN IF SumMismatch(rest)
          THEN /\ toasts' = [toasts EXCEPT ![t] = <<MsgNotComplete>>]
               /\ UNCHANGED allocations
          ELSE /\ toasts' = [toasts EXCEPT ![t] = <<>>]
               /\ allocations' = [allocations EXCEPT ![t] = rest]
    /\ call' = [call EXCEPT ![t] = NoCall]
    /\ issued' = [issued EXCEPT ![t] = {}]
    /\ faults' = [faults EXCEPT ![t] = {}]
    /\ pre' = [pre EXCEPT ![t] = EmptyBag]
    /\ clicked' = [clicked EXCEPT ![t] = "removeAllocationRow"]
    /\ UNCHANGED <<public_assets, asset_allocations, tabs, assets, selectedAsset, showAllocationModal, saving, pc>>
    /\ UNCHANGED lifeVars

removeAllocationRow(t, index) ==
    /\ Idle(t)
    /\ showAllocationModal[t]
    /\ index \in DOMAIN allocations[t]
    /\ allocations' = [allocations EXCEPT ![t] =
          SubSeq(@, 1, index - 1) \o SubSeq(@, index + 1, Len(@))]
    /\ ForgetCall(t)
    /\ clicked' = [clicked EXCEPT ![t] = "removeAllocationRow"]
    /\ UNCHANGED <<public_assets, asset_allocations, tabs, assets, selectedAsset, showAllocationModal, saving, pc>>
    /\ UNCHANGED lifeVars

updateAllocation(t, index, field, value) ==
    /\ Idle(t)
    /\ showAllocationModal[t]
    /\ index \in DOMAIN allocations[t]
    /\ \/ field = "recipientId" /\ value \in RecipientIds
       \/ field = "percentage" /\ value \in PctStrings
    /\ allocations' = [allocations EXCEPT ![t][index][field] = value]
    /\ ForgetCall(t)
    /\ clicked' = [clicked EXCEPT ![t] = "none"]
    /\ UNCHANGED <<public_assets, asset_allocations, tabs, assets, selectedAsset, showAllocationModal, saving, pc>>
    /\ UNCHANGED lifeVars

----------------------------------------------------------------------------
(* saveAllocations: the click, then one step per awaited request *)

(* Up to the first await: validation, setSaving(true).  The button exists only
   while the modal shows an asset, so `!selectedAsset` never holds here. *)
saveAllocations(t) ==
    /\ Idle(t)
    /\ showAllocationModal[t]
    /\ selectedAsset[t] # NoAsset
    /\ call' = [call EXCEPT ![t] = [asset |-> selectedAsset[t], rows |-> allocations[t]]]
    /\ pre' = [pre EXCEPT ![t] = asset_allocations]
    /\ clicked' = [clicked EXCEPT ![t] = "none"]
    /\ issued' = [issued EXCEPT ![t] = {}]
    /\ faults' = [faults EXCEPT ![t] = {}]
    /\ IF Validate(allocations[t]) # "ok"
       THEN /\ toasts' = [toasts EXCEPT ![t] = <<Validate(allocations[t])>>]
            /\ UNCHANGED <<saving, pc>>
       ELSE /\ toasts' = [toasts EXCEPT ![t] = <<>>]
            /\ saving' = [saving EXCEPT ![t] = TRUE]
            /\ pc' = [pc EXCEPT ![t] = "delete"]
    /\ UNCHANGED <<public_assets, asset_allocations, tabs, assets, selectedAsset, allocations,
                   showAllocationModal>>
    /\ UNCHANGED lifeVars

(* await ...delete().eq("asset_id", selectedAsset.id): the result is not read *)
deleteAllocations(t) ==
    /\ t \in tabs
    /\ pc[t] = "delete"
    /\ issued' = [issued EXCEPT ![t] = @ \cup {"delete"}]
    /\ \E ok \in BOOLEAN :
          /\ asset_allocations' =
                IF ok THEN RowsNotOfAsset(asset_allocations, call[t].asset)
                ELSE asset_allocations
          /\ faults' = [faults EXCEPT ![t] =
                IF ok THEN @ ELSE @ \cup {[request |-> "delete", error |-> "network"]}]
    /\ pc' = [pc EXCEPT ![t] = IF Len(call[t].rows) > 0 THEN "insert" ELSE "fetch"]
    /\ UNCHANGED <<public_assets, tabs, assets, selectedAsset, allocations, showAllocationModal,
                   saving, call, toasts, pre, clicked>>
    /\ UNCHANGED lifeVars

(* saveAllocations without its finally block *)
Finally_Missing(t) == saving

(* finally { setSaving(false) } *)
Finally(t) == [saving EXCEPT ![t] = FALSE]

(* await ...insert(rows); if (error) throw error; catch: toast; finally: setSaving(false) *)
insertAllocations(t) ==
    /\ t \in tabs
    /\ pc[t] = "insert"
    /\ issued' = [issued EXCEPT ![t] = @ \cup {"insert"}]
    /\ \E ok \in BOOLEAN :
          LET payload == InsertPayload(call[t].asset, call[t].rows)
              error == IF ok THEN InsertError(asset_allocations, payload) ELSE "network"
          IN  IF error = "none"
              THEN /\ asset_allocations' = asset_allocations (+) BagOfSeq(CastRows(payload))
                   /\ pc' = [pc EXCEPT ![t] = "fetch"]
                   /\ UNCHANGED <<faults, toasts, saving>>
              ELSE /\ faults' = [faults EXCEPT ![t] =
                         @ \cup {[request |-> "insert", error |-> error]}]
                   /\ toasts' = [toasts EXCEPT ![t] = Append(@, MsgFailed)]
                   /\ saving' = Finally(t)
                   /\ pc' = [pc EXCEPT ![t] = "idle"]
                   /\ UNCHANGED asset_allocations
    /\ UNCHANGED <<public_assets, tabs, assets, selectedAsset, allocations, showAllocationModal,
                   call, pre, clicked>>
    /\ UNCHANGED lifeVars

(* await fetchData() (which catches its own errors); setShowAllocationModal(false);
   toast.success; finally: setSaving(false) *)
fetchData(t) ==
    /\ t \in tabs
    /\ pc[t] = "fetch"
    /\ \E ok \in BOOLEAN :
          IF ok
          THEN /\ assets' = [assets EXCEPT ![t] = asset_allocations]
               /\ toasts' = [toasts EXCEPT ![t] = Append(@, MsgSaved)]
               /\ UNCHANGED faults
          ELSE /\ faults' = [faults EXCEPT ![t] =
                     @ \cup {[request |-> "select", error |-> "network"]}]
               /\ toasts' = [toasts EXCEPT ![t] = Append(Append(@, MsgLoadFailed), MsgSaved)]
               /\ UNCHANGED assets
    /\ showAllocationModal' = [showAllocationModal EXCEPT ![t] = FALSE]
    /\ saving' = Finally(t)
    /\ pc' = [pc EXCEPT ![t] = "idle"]
    /\ UNCHANGED <<public_assets, asset_allocations, tabs, selectedAsset, allocations, call,
                   issued, pre, clicked>>
    /\ UNCHANGED lifeVars

----------------------------------------------------------------------------
(* One page *)

Edit ==
    \E t \in Tab :
        \/ \E a \in AssetIds : openAllocationModal(t, a)
        \/ closeAllocationModal(t)
        \/ addAllocationRow(t)
        \/ \E index \in 1..MaxRows : removeAllocationRow(t, index)
        \/ \E index \in 1..MaxRows : \E value \in RecipientIds :
              updateAllocation(t, index, "recipientId", value)
        \/ \E index \in 1..MaxRows : \E value \in PctStrings :
              updateAllocation(t, index, "percentage", value)

Save ==
    \E t \in Tab :
        \/ saveAllocations(t)
        \/ deleteAllocations(t)
        \/ insertAllocations(t)
        \/ fetchData(t)

Next == Edit \/ Save

Spec == Init /\ [][Next]_vars

----------------------------------------------------------------------------
(* Two pages, each with rows that pass validation in its buffer, saving at will *)

RowLists ==
    UNION {[1..n -> [recipientId : RecipientIds, percentage : PctStrings]] : n \in 0..MaxRows}

InitTabs ==
    /\ public_assets = AssetIds
    /\ asset_allocations = EmptyBag
    /\ tabs = {"T1", "T2"}
    /\ assets = [t \in Tab |-> EmptyBag]
    /\ selectedAsset \in [Tab -> AssetIds]
    /\ allocations \in [Tab -> {rows \in RowLists : Validate(rows) = "ok"}]
    /\ showAllocationModal = [t \in Tab |-> TRUE]
    /\ saving = [t \in Tab |-> FALSE]
    /\ pc = [t \in Tab |-> "idle"]
    /\ call = [t \in Tab |-> NoCall]
    /\ toasts = [t \in Tab |-> <<>>]
    /\ issued = [t \in Tab |-> {}]
    /\ faults = [t \in Tab |-> {}]
    /\ pre = [t \in Tab |-> EmptyBag]
    /\ clicked = [t \in Tab |-> "none"]
    /\ public_wills = <<>>
    /\ public_recipients = {[id |-> r, user_id |-> user, email |-> "r@example.com"] : r \in RecipientIds}
    /\ assets_user_id = [a \in AssetIds |-> user]
    /\ InitWillPages("AssetManagement")
    /\ InitApi

NextTabs == Save

SpecTabs == InitTabs /\ [][NextTabs]_vars

----------------------------------------------------------------------------
(* The modal as it is rendered: what the user can reach of the handlers.    *)
(* An option of a row's select is disabled while another row holds its      *)
(* recipient, the Add Recipient button is rendered while there are fewer    *)
(* rows than recipients, Save Allocations is disabled while the rows do not *)
(* total 100.                                                               *)

OptionDisabled_Never(rows, index, r) == FALSE

OptionDisabled(rows, index, r) ==
    \E i \in DOMAIN rows : i # index /\ rows[i].recipientId = r

AddShown(t) == Len(allocations[t]) < Len(recipients)

SaveDisabled(t) ==
    saving[t] \/ (Len(allocations[t]) > 0 /\ getTotalPercentage(allocations[t]) # 100000)

selectRecipient(t, index, value) ==
    /\ index \in DOMAIN allocations[t]
    /\ ~OptionDisabled(allocations[t], index, value)
    /\ updateAllocation(t, index, "recipientId", value)

clickAddRecipient(t) == AddShown(t) /\ addAllocationRow(t)

clickSaveAllocations(t) == ~SaveDisabled(t) /\ saveAllocations(t)

EditUI ==
    \E t \in Tab :
        \/ \E a \in AssetIds : openAllocationModal(t, a)
        \/ closeAllocationModal(t)
        \/ clickAddRecipient(t)
        \/ \E index \in 1..MaxRows : removeAllocationRow(t, index)
        \/ \E index \in 1..MaxRows : \E value \in RecipientIds :
              selectRecipient(t, index, value)
        \/ \E index \in 1..MaxRows : \E value \in PctStrings :
              updateAllocation(t, index, "percentage", value)

SaveUI ==
    \E t \in Tab :
        \/ clickSaveAllocations(t)
        \/ deleteAllocations(t)
        \/ insertAllocations(t)
        \/ fetchData(t)

NextUI == EditUI \/ SaveUI

SpecUI == Init /\ [][NextUI]_vars

----------------------------------------------------------------------------
(* The wills: CreateChatWill and CreateVideoWill save one, ReviewWill       *)
(* finalizes the latest, the edge function notify-recipients mails the      *)
(* recipients.  The rows of public_wills stand in the order of updated_at,  *)
(* latest first; a row's id is its rank of insertion (no code deletes a     *)
(* will).  A tab shows one page; the user opens the pages by name (App.tsx  *)
(* routes no path to CreateChatWill, whose handler is the video page's but  *)
(* for the upload).                                                         *)

MaxWills == 2

MsgChatSaved == "Conversation saved successfully"
MsgChatFailed == "Failed to save will"
MsgVideoSaved == "Video saved successfully"
MsgVideoFailed == "Failed to save video"
MsgNoWill == "Please create a will before finalizing"
MsgNotifyWarning == "Will finalized, but some notifications may not have been sent"
MsgNotified == "Notifications sent to recipient(s)"
MsgFinalizeFailed == "Failed to finalize will"
MsgReviewLoadFailed == "Failed to load will data"

WillTypeOf(page) == IF page = "CreateChatWill" THEN "chat" ELSE "video"
isSaving(t) == wpc[t] \in {"lookup", "write"}
isSubmitting(t) == wpc[t] \in {"update", "notify"}

(* SELECT on wills under the policy "Users can view their own wills" *)
WillsOf(u) ==
    LET mine(w) == w.user_id = u
    IN SelectSeq(public_wills, mine)

(* .eq("user_id", ..).eq("type", ..) *)
WillsOfType(u, type) ==
    LET same(w) == w.type = type
    IN SelectSeq(WillsOf(u), same)

(* maybeSingle(): the row if there is one; no row, or an error for several  *)
(* rows, both come back as data = null                                      *)
maybeSingle(rows) == IF Len(rows) = 1 THEN rows[1].id ELSE NoWill.id

Without(rows, i) == SubSeq(rows, 1, i - 1) \o SubSeq(rows, i + 1, Len(rows))

(* The update without its .eq("id", ...): every will of u gets the status *)
UpdateWill_AllOfOwner(u, id, status) ==
    [i \in DOMAIN public_wills |->
        IF public_wills[i].user_id = u
        THEN [public_wills[i] EXCEPT !.status = status]
        ELSE public_wills[i]]

(* UPDATE wills SET status, updated_at = now WHERE id = ..., as user u *)
UpdateWill(u, id, status) ==
    IF \E i \in DOMAIN public_wills : public_wills[i].id = id /\ public_wills[i].user_id = u
    THEN LET i == CHOOSE j \in DOMAIN public_wills : public_wills[j].id = id
         IN <<[public_wills[i] EXCEPT !.status = status]>> \o Without(public_wills, i)
    ELSE public_wills

(* The insert leaving the status to the column: status ... DEFAULT 'draft' *)
InsertWill_DefaultStatus(u, type, status) ==
    <<[id |-> Len(public_wills) + 1, user_id |-> u, type |-> type, status |-> "draft"]>>
        \o public_wills

(* INSERT INTO wills (user_id, type, status) *)
InsertWill(u, type, status) ==
    <<[id |-> Len(public_wills) + 1, user_id |-> u, type |-> type, status |-> status]>>
        \o public_wills

(* The user opens a page in the tab; ReviewWill loads its data on mount *)
fetchReviewData(loaded) ==
    IF loaded
    THEN [will |-> IF WillsOf(user) = <<>> THEN NoWill ELSE Head(WillsOf(user)),
          recipients |-> Cardinality({r \in public_recipients : r.user_id = user}),
          agreed |-> FALSE]
    ELSE NoReview

visit(t, page) ==
    /\ t \in tabs
    /\ wpc[t] = "idle"
    /\ page \in {"Dashboard", "CreateChatWill", "CreateVideoWill", "ReviewWill"}
    /\ location' = [location EXCEPT ![t] = page]
    /\ \E loaded \in BOOLEAN :
        /\ review' = [review EXCEPT ![t] =
                        IF page = "ReviewWill" THEN fetchReviewData(loaded) ELSE NoReview]
        /\ toasts' = [toasts EXCEPT ![t] =
                        IF page = "ReviewWill" /\ ~loaded THEN <<MsgReviewLoadFailed>> ELSE <<>>]
    /\ notified' = [notified EXCEPT ![t] = NoRun]
    /\ UNCHANGED <<public_assets, asset_allocations, tabs, public_wills, public_recipients,
                   assets_user_id, wpc, existingWill>>
    /\ UNCHANGED allocationVars
    /\ UNCHANGED apiVars

(* handleSaveAndContinue of CreateChatWill and CreateVideoWill, up to its    *)
(* first request to the table; the video page uploads the recording first   *)
handleSaveAndContinue(t) ==
    /\ t \in tabs
    /\ location[t] \in {"CreateChatWill", "CreateVideoWill"}
    /\ ~isSaving(t)
    /\ \E uploaded \in BOOLEAN :
        IF location[t] = "CreateVideoWill" /\ ~uploaded
        THEN /\ toasts' = [toasts EXCEPT ![t] = <<MsgVideoFailed>>]
             /\ UNCHANGED wpc
        ELSE /\ toasts' = [toasts EXCEPT ![t] = <<>>]
             /\ wpc' = [wpc EXCEPT ![t] = "lookup"]
    /\ UNCHANGED <<public_assets, asset_allocations, tabs, public_wills, public_recipients,
                   assets_user_id, location, existingWill, review, notified>>
    /\ UNCHANGED allocationVars
    /\ UNCHANGED apiVars

(* const { data: existingWill } = await ...maybeSingle(): the error is not read *)
(* ok: whether the store answered the request *)
selectExistingWill(t, ok) ==
    /\ t \in tabs
    /\ wpc[t] = "lookup"
    /\ existingWill' = [existingWill EXCEPT ![t] =
            IF ok THEN maybeSingle(WillsOfType(user, WillTypeOf(location[t]))) ELSE NoWill.id]
    /\ wpc' = [wpc EXCEPT ![t] = "write"]
    /\ UNCHANGED <<public_assets, asset_allocations, tabs, toasts, public_wills,
                   public_recipients, assets_user_id, location, review, notified>>
    /\ UNCHANGED allocationVars
    /\ UNCHANGED apiVars

(* The update or the insert, and the rest of the handler; the table holds  *)
(* MaxWills rows at most: an insert into a full table is taken to fail      *)
writeWill(t) ==
    /\ t \in tabs
    /\ wpc[t] = "write"
    /\ \E ok \in BOOLEAN :
        /\ (ok /\ existingWill[t] = NoWill.id) => Len(public_wills) < MaxWills
        /\ public_wills' =
              IF ~ok THEN public_wills
              ELSE IF existingWill[t] # NoWill.id
                   THEN UpdateWill(user, existingWill[t], "in_progress")
                   ELSE InsertWill(user, WillTypeOf(location[t]), "in_progress")
        /\ toasts' = [toasts EXCEPT ![t] =
              IF location[t] = "CreateChatWill"
              THEN IF ok THEN <<MsgChatSaved>> ELSE <<MsgChatFailed>>
              ELSE IF ok THEN <<MsgVideoSaved>> ELSE <<MsgVideoFailed>>]
        /\ location' = [location EXCEPT ![t] = IF ok THEN "AssetManagement" ELSE @]
    /\ wpc' = [wpc EXCEPT ![t] = "idle"]
    /\ existingWill' = [existingWill EXCEPT ![t] = NoWill.id]
    /\ UNCHANGED <<public_assets, asset_allocations, tabs, public_recipients, assets_user_id,
                   review, notified>>
    /\ UNCHANGED allocationVars
    /\ UNCHANGED apiVars

SaveContent == \E t \in Tab :
    \/ handleSaveAndContinue(t)
    \/ \E ok \in BOOLEAN : selectExistingWill(t, ok)
    \/ writeWill(t)

(* The same, the store answering every lookup *)
SaveContentAnswered == \E t \in Tab :
    \/ handleSaveAndContinue(t)
    \/ selectExistingWill(t, TRUE)
    \/ writeWill(t)

(* The Finalize button: disabled={!agreed || isSubmitting || !will}.  Its    *)
(* third test is the one handleSubmit makes again at its first line, where  *)
(* it is modelled.                                                          *)
FinalizeEnabled_NoAcknowledgment(t) == ~isSubmitting(t)

FinalizeEnabled(t) == review[t].agreed /\ ~isSubmitting(t)

setAgreed(t, checked) ==
    /\ t \in tabs
    /\ location[t] = "ReviewWill"
    /\ wpc[t] = "idle"
    /\ review' = [review EXCEPT ![t].agreed = checked]
    /\ UNCHANGED <<public_assets, asset_allocations, tabs, toasts, public_wills,
                   public_recipients, assets_user_id, location, wpc, existingWill, notified>>
    /\ UNCHANGED allocationVars
    /\ UNCHANGED apiVars

(* handleSubmit up to its first request *)
handleSubmit(t) ==
    /\ t \in tabs
    /\ location[t] = "ReviewWill"
    /\ FinalizeEnabled(t)
    /\ IF review[t].will = NoWill
       THEN /\ toasts' = [toasts EXCEPT ![t] = <<MsgNoWill>>]
            /\ UNCHANGED wpc
       ELSE /\ toasts' = [toasts EXCEPT ![t] = <<>>]
            /\ wpc' = [wpc EXCEPT ![t] = "update"]
    /\ notified' = [notified EXCEPT ![t] = NoRun]
    /\ UNCHANGED <<public_assets, asset_allocations, tabs, public_wills, public_recipients,
                   assets_user_id, location, existingWill, review>>
    /\ UNCHANGED allocationVars
    /\ UNCHANGED apiVars

(* handleSubmit going on to the notifications whatever the update returned *)
AfterUpdate_ErrorIgnored(ok) == "notify"

(* if (error) throw error: the catch block ends the call *)
AfterUpdate(ok) == IF ok THEN "notify" ELSE "idle"

(* update({ status: "completed" }).eq("id", will.id); if (error) throw error *)
updateStatus(t) ==
    /\ t \in tabs
    /\ wpc[t] = "update"
    /\ \E ok \in BOOLEAN :
        /\ IF ok
           THEN /\ public_wills' = UpdateWill(user, review[t].will.id, "completed")
                /\ UNCHANGED toasts
           ELSE /\ toasts' = [toasts EXCEPT ![t] = <<MsgFinalizeFailed>>]
                /\ UNCHANGED public_wills
        /\ wpc' = [wpc EXCEPT ![t] = AfterUpdate(ok)]
    /\ UNCHANGED <<public_assets, asset_allocations, tabs, public_recipients, assets_user_id,
                   location, existingWill, review, notified>>
    /\ UNCHANGED allocationVars
    /\ UNCHANGED apiVars

(* What resend.emails.send can do: resolve with data (the mail is accepted), *)
(* resolve with { data: null, error } (the request is refused), or throw     *)
SendOutcomes == {"accepted", "refused", "threw"}

(* A send counts as a success of the handler unless it threw *)
Succeeded(outcome) == outcome # "threw"

RECURSIVE BagSum(_, _)
BagSum(b, S) ==
    IF S = {} THEN 0
    ELSE LET e == CHOOSE x \in S : TRUE
         IN b[e] + BagSum(b, S \ {e})

(* The edge function notify-recipients, called by user u: `fetched` is      *)
(* whether it got as far as its recipients (authorization header, select),  *)
(* outcome[r] what the send to recipient r does                             *)
notifyRecipients(u, fetched, outcome) ==
    LET rows == {r \in public_recipients : r.user_id = u /\ r.email # Null}
        mailed == {r \in rows : r.email # ""}
        sends == SetToBag({[recipient |-> r.id, outcome |-> outcome[r.id]] : r \in mailed})
        results == {s \in BagToSet(sends) : Succeeded(s.outcome)}
    IN IF ~fetched
       THEN [invoked |-> TRUE, sends |-> EmptyBag,
             response |-> [status |-> 500, sent |-> 0, hasTotal |-> FALSE, total |-> 0]]
       ELSE IF rows = {}
       THEN [invoked |-> TRUE, sends |-> EmptyBag,
             response |-> [status |-> 200, sent |-> 0, hasTotal |-> FALSE, total |-> 0]]
       ELSE [invoked |-> TRUE, sends |-> sends,
             response |-> [status |-> 200, sent |-> BagSum(sends, results),
                           hasTotal |-> TRUE, total |-> BagCardinality(sends)]]

(* When the page holds no recipient, handleSubmit does not invoke *)
NotifyNeeded_Always(t) == TRUE

(* handleSubmit skipping the notifier for a will that was completed before *)
NotifyNeeded_OncePerWill(t) ==
    review[t].recipients > 0 /\ review[t].will.status # "completed"

NotifyNeeded(t) == review[t].recipients > 0

(* Where handleSubmit goes once the invocation has returned: neither an     *)
(* error of the invocation nor its data is thrown                           *)
AfterNotify_ThrowOnError(run) ==
    IF run.invoked /\ run.response.status # 200 THEN "ReviewWill" ELSE "Confirmation"

AfterNotify(run) == "Confirmation"

(* The rest of handleSubmit: the profile, the notifications, the navigation *)
notifyAndNavigate(t) ==
    /\ t \in tabs
    /\ wpc[t] = "notify"
    /\ \E fetched \in BOOLEAN, outcome \in [RecipientIds -> SendOutcomes] :
        LET run == IF NotifyNeeded(t) THEN notifyRecipients(user, fetched, outcome) ELSE NoRun
        IN /\ notified' = [notified EXCEPT ![t] = run]
           /\ toasts' = [toasts EXCEPT ![t] =
                 IF ~run.invoked THEN <<>>
                 ELSE IF run.response.status # 200 THEN <<MsgNotifyWarning>>
                 ELSE IF run.response.sent > 0 THEN <<MsgNotified>>
                 ELSE <<>>]
           /\ location' = [location EXCEPT ![t] = AfterNotify(run)]
    /\ wpc' = [wpc EXCEPT ![t] = "idle"]
    /\ UNCHANGED <<public_assets, asset_allocations, tabs, public_wills, public_recipients,
                   assets_user_id, existingWill, review>>
    /\ UNCHANGED allocationVars
    /\ UNCHANGED apiVars

Finalize == \E t \in Tab :
    \/ \E checked \in BOOLEAN : setAgreed(t, checked)
    \/ handleSubmit(t)
    \/ updateStatus(t)
    \/ notifyAndNavigate(t)

Visit == \E t \in Tab, page \in Pages : visit(t, page)

(* One tab of a user who has any of two recipients and at most one asset *)
RecipientTables ==
    {{[id |-> r, user_id |-> user, email |-> e[r]] : r \in ids} :
        ids \in SUBSET RecipientIds, e \in [RecipientIds -> Emails]}

InitWill ==
    /\ public_assets \in {{}, {"A1"}}
    /\ asset_allocations = EmptyBag
    /\ tabs = {"T1"}
    /\ assets = [t \in Tab |-> EmptyBag]
    /\ selectedAsset = [t \in Tab |-> NoAsset]
    /\ allocations = [t \in Tab |-> <<>>]
    /\ showAllocationModal = [t \in Tab |-> FALSE]
    /\ saving = [t \in Tab |-> FALSE]
    /\ pc = [t \in Tab |-> "idle"]
    /\ call = [t \in Tab |-> NoCall]
    /\ toasts = [t \in Tab |-> <<>>]
    /\ issued = [t \in Tab |-> {}]
    /\ faults = [t \in Tab |-> {}]
    /\ pre = [t \in Tab |-> EmptyBag]
    /\ clicked = [t \in Tab |-> "none"]
    /\ public_wills = <<>>
    /\ public_recipients \in RecipientTables
    /\ assets_user_id = [a \in public_assets |-> user]
    /\ InitWillPages("Dashboard")
    /\ InitApi

NextWill == Visit \/ SaveContent \/ Finalize

SpecWill == InitWill /\ [][NextWill]_vars

(* Two tabs of the same user on the video page *)
InitWillTabs ==
    /\ public_assets = {}
    /\ asset_allocations = EmptyBag
    /\ tabs = {"T1", "T2"}
    /\ assets = [t \in Tab |-> EmptyBag]
    /\ selectedAsset = [t \in Tab |-> NoAsset]
    /\ allocations = [t \in Tab |-> <<>>]
    /\ showAllocationModal = [t \in Tab |-> FALSE]
    /\ saving = [t \in Tab |-> FALSE]
    /\ pc = [t \in Tab |-> "idle"]
    /\ call = [t \in Tab |-> NoCall]
    /\ toasts = [t \in Tab |-> <<>>]
    /\ issued = [t \in Tab |-> {}]
    /\ faults = [t \in Tab |-> {}]
    /\ pre = [t \in Tab |-> EmptyBag]
    /\ clicked = [t \in Tab |-> "none"]
    /\ public_wills = <<>>
    /\ public_recipients = {}
    /\ assets_user_id = [a \in public_assets |-> user]
    /\ InitWillPages("CreateVideoWill")
    /\ InitApi

NextWillTabs == Visit \/ SaveContentAnswered

SpecWillTabs == InitWillTabs /\ [][NextWillTabs]_vars

(* Two tabs of the same user, who has no asset and no recipient, each on    *)
(* any of the pages; the lookups of the saves are answered                  *)
InitReviewTabs ==
    /\ public_assets = {}
    /\ asset_allocations = EmptyBag
    /\ tabs = {"T1", "T2"}
    /\ assets = [t \in Tab |-> EmptyBag]
    /\ selectedAsset = [t \in Tab |-> NoAsset]
    /\ allocations = [t \in Tab |-> <<>>]
    /\ showAllocationModal = [t \in Tab |-> FALSE]
    /\ saving = [t \in Tab |-> FALSE]
    /\ pc = [t \in Tab |-> "idle"]
    /\ call = [t \in Tab |-> NoCall]
    /\ toasts = [t \in Tab |-> <<>>]
    /\ issued = [t \in Tab |-> {}]
    /\ faults = [t \in Tab |-> {}]
    /\ pre = [t \in Tab |-> EmptyBag]
    /\ clicked = [t \in Tab |-> "none"]
    /\ public_wills = <<>>
    /\ public_recipients = {}
    /\ assets_user_id = [a \in public_assets |-> user]
    /\ InitWillPages("Dashboard")
    /\ InitApi

NextReviewTabs == Visit \/ SaveContentAnswered \/ Finalize

SpecReviewTabs == InitReviewTabs /\ [][NextReviewTabs]_vars

----------------------------------------------------------------------------
(* The store seen from its API: any signed-in user u may send any request;  *)
(* the row-level policies decide which rows it reaches, the foreign keys    *)
(* what else it removes.  `request` keeps the last request, `received` what *)
(* the last select returned.                                                *)

MsgAssetDeleted == "Asset deleted"
MsgAssetDeleteFailed == "Failed to delete asset"
MsgRecipientRemoved == "Recipient removed"
MsgRecipientRemoveFailed == "Failed to remove recipient"

RecipientRow(r) == CHOOSE x \in public_recipients : x.id = r
StoredRecipients == {x.id : x \in public_recipients}

(* auth.uid() = user_id, on assets and on recipients *)
OwnsAsset(u, a) == a \in public_assets /\ assets_user_id[a] = u
OwnsRecipient(u, r) == \E x \in public_recipients : x.id = r /\ x.user_id = u

(* EXISTS (SELECT 1 FROM assets WHERE assets.id = asset_allocations.asset_id *)
(* AND assets.user_id = auth.uid()): the policies of asset_allocations      *)
AllocationPolicy(u, row) == OwnsAsset(u, row.asset_id)

RowsOfRecipient(table, r) ==
    [x \in {y \in BagToSet(table) : y.recipient_id = r} |-> table[x]]

(* recipient_id ... ON DELETE CASCADE not declared *)
CascadeRecipient_Kept(table, r) == table

(* recipient_id REFERENCES recipients(id) ON DELETE CASCADE *)
CascadeRecipient(table, r) ==
    [x \in {y \in BagToSet(table) : y.recipient_id # r} |-> table[x]]

(* asset_id REFERENCES assets(id) ON DELETE CASCADE *)
CascadeAsset(table, a) == RowsNotOfAsset(table, a)

(* DELETE FROM assets WHERE id = a, as user u: the store's part *)
DeleteAssetRows(u, a) ==
    IF OwnsAsset(u, a)
    THEN /\ public_assets' = public_assets \ {a}
         /\ assets_user_id' = [x \in public_assets \ {a} |-> assets_user_id[x]]
         /\ asset_allocations' = CascadeAsset(asset_allocations, a)
         /\ request' = [by |-> u, op |-> "delete", table |-> "assets",
                        cascaded |-> BagCardinality(RowsOfAsset(asset_allocations, a)),
                        error |-> "none"]
    ELSE /\ UNCHANGED <<public_assets, assets_user_id, asset_allocations>>
         /\ request' = [by |-> u, op |-> "delete", table |-> "assets", cascaded |-> 0, error |-> "none"]

(* DELETE FROM recipients WHERE id = r, as user u: the store's part *)
DeleteRecipientRows(u, r) ==
    IF OwnsRecipient(u, r)
    THEN /\ public_recipients' = public_recipients \ {RecipientRow(r)}
         /\ asset_allocations' = CascadeRecipient(asset_allocations, r)
         /\ request' = [by |-> u, op |-> "delete", table |-> "recipients",
                        cascaded |-> BagCardinality(RowsOfRecipient(asset_allocations, r)),
                        error |-> "none"]
    ELSE /\ UNCHANGED <<public_recipients, asset_allocations>>
         /\ request' = [by |-> u, op |-> "delete", table |-> "recipients", cascaded |-> 0, error |-> "none"]

(* INSERT INTO assets (id, user_id) VALUES (a, uid), as user u *)
InsertAsset(u, a, uid) ==
    /\ a \in AssetIds \ public_assets
    /\ IF uid = u
       THEN /\ public_assets' = public_assets \cup {a}
            /\ assets_user_id' = [x \in public_assets \cup {a} |->
                                    IF x = a THEN uid ELSE assets_user_id[x]]
       ELSE UNCHANGED <<public_assets, assets_user_id>>
    /\ request' = [by |-> u, op |-> "insert", table |-> "assets", cascaded |-> 0, error |-> "none"]
    /\ received' = NoReceived
    /\ UNCHANGED <<asset_allocations, tabs, toasts, public_wills, public_recipients>>
    /\ UNCHANGED allocationVars
    /\ UNCHANGED willVars

(* INSERT INTO recipients (id, user_id, email) VALUES (r, uid, ...), as user u *)
InsertRecipient(u, r, uid) ==
    /\ r \in RecipientIds \ StoredRecipients
    /\ public_recipients' =
          IF uid = u
          THEN public_recipients \cup {[id |-> r, user_id |-> uid, email |-> "r@example.com"]}
          ELSE public_recipients
    /\ request' = [by |-> u, op |-> "insert", table |-> "recipients", cascaded |-> 0, error |-> "none"]
    /\ received' = NoReceived
    /\ UNCHANGED <<public_assets, asset_allocations, tabs, toasts, public_wills, assets_user_id>>
    /\ UNCHANGED allocationVars
    /\ UNCHANGED willVars

DeleteAsset(u, a) ==
    /\ a \in AssetIds
    /\ DeleteAssetRows(u, a)
    /\ received' = NoReceived
    /\ UNCHANGED <<tabs, toasts, public_wills, public_recipients>>
    /\ UNCHANGED allocationVars
    /\ UNCHANGED willVars

DeleteRecipient(u, r) ==
    /\ r \in RecipientIds
    /\ DeleteRecipientRows(u, r)
    /\ received' = NoReceived
    /\ UNCHANGED <<public_assets, tabs, toasts, public_wills, assets_user_id>>
    /\ UNCHANGED allocationVars
    /\ UNCHANGED willVars

(* The percentages a request asks to store: none, all, more than all *)
RequestedPercentages == {0, 100000, 150000}

(* INSERT INTO asset_allocations (asset_id, recipient_id, allocation_percentage) *)
(* VALUES (a, r, p), as user u: the policy, then the constraints                 *)
InsertAllocation(u, a, r, p) ==
    LET row == [asset_id |-> a, recipient_id |-> r, allocation_percentage |-> p]
        error == IF ~AllocationPolicy(u, row) THEN "42501"
                 ELSE InsertError(asset_allocations, <<row>>)
    IN /\ asset_allocations' =
             IF error = "none"
             THEN asset_allocations (+) BagOfSeq(CastRows(<<row>>))
             ELSE asset_allocations
       /\ request' = [by |-> u, op |-> "insert", table |-> "asset_allocations", cascaded |-> 0,
                      error |-> error]
       /\ received' = NoReceived
       /\ UNCHANGED <<public_assets, tabs, toasts, public_wills, public_recipients, assets_user_id>>
       /\ UNCHANGED allocationVars
       /\ UNCHANGED willVars

(* DELETE FROM asset_allocations WHERE asset_id = a, as user u *)
DeleteAllocation(u, a) ==
    /\ a \in AssetIds
    /\ asset_allocations' =
          [x \in {y \in BagToSet(asset_allocations) :
                     ~(y.asset_id = a /\ AllocationPolicy(u, y))} |-> asset_allocations[x]]
    /\ request' = [by |-> u, op |-> "delete", table |-> "asset_allocations", cascaded |-> 0, error |-> "none"]
    /\ received' = NoReceived
    /\ UNCHANGED <<public_assets, tabs, toasts, public_wills, public_recipients, assets_user_id>>
    /\ UNCHANGED allocationVars
    /\ UNCHANGED willVars

(* SELECT * FROM table, as user u: the owners of the rows that come back    *)
(* (an allocation row belongs to the owner of its asset)                    *)
Visible(u, table) ==
    CASE table = "assets" -> {assets_user_id[a] : a \in {x \in public_assets : OwnsAsset(u, x)}}
      [] table = "recipients" -> {x.user_id : x \in {y \in public_recipients : y.user_id = u}}
      [] table = "asset_allocations" ->
            {assets_user_id[x.asset_id] :
                x \in {y \in BagToSet(asset_allocations) : AllocationPolicy(u, y)}}

Select(u, table) ==
    /\ request' = [by |-> u, op |-> "select", table |-> table, cascaded |-> 0, error |-> "none"]
    /\ received' = [to |-> u, owners |-> Visible(u, table)]
    /\ UNCHANGED <<public_assets, asset_allocations, tabs, toasts, public_wills,
                   public_recipients, assets_user_id>>
    /\ UNCHANGED allocationVars
    /\ UNCHANGED willVars

(* handleDeleteAsset of AssetManagement: the request, then the page's list *)
handleDeleteAsset(t, id) ==
    /\ t \in tabs
    /\ location[t] = "AssetManagement"
    /\ id \in AssetIds
    /\ \E ok \in BOOLEAN :
        IF ok
        THEN /\ DeleteAssetRows(user, id)
             /\ assets' = [assets EXCEPT ![t] = RowsNotOfAsset(@, id)]
             /\ toasts' = [toasts EXCEPT ![t] = <<MsgAssetDeleted>>]
        ELSE /\ toasts' = [toasts EXCEPT ![t] = <<MsgAssetDeleteFailed>>]
             /\ request' = NoRequest
             /\ UNCHANGED <<public_assets, assets_user_id, asset_allocations, assets>>
    /\ received' = NoReceived
    /\ UNCHANGED <<tabs, public_wills, public_recipients, selectedAsset, allocations,
                   showAllocationModal, saving, pc, call, issued, faults, pre, clicked>>
    /\ UNCHANGED willVars

(* handleDeleteRecipient of the Recipients page (its list of recipients is  *)
(* no state of this model)                                                  *)
handleDeleteRecipient(t, id) ==
    /\ t \in tabs
    /\ location[t] = "Recipients"
    /\ id \in RecipientIds
    /\ \E ok \in BOOLEAN :
        IF ok
        THEN /\ DeleteRecipientRows(user, id)
             /\ toasts' = [toasts EXCEPT ![t] = <<MsgRecipientRemoved>>]
        ELSE /\ toasts' = [toasts EXCEPT ![t] = <<MsgRecipientRemoveFailed>>]
             /\ request' = NoRequest
             /\ UNCHANGED <<public_recipients, asset_allocations>>
    /\ received' = NoReceived
    /\ UNCHANGED <<public_assets, tabs, public_wills, assets_user_id>>
    /\ UNCHANGED allocationVars
    /\ UNCHANGED willVars

Requests == \E u \in Users :
    \/ \E a \in AssetIds, uid \in Users : InsertAsset(u, a, uid)
    \/ \E r \in RecipientIds, uid \in Users : InsertRecipient(u, r, uid)
    \/ \E a \in AssetIds : DeleteAsset(u, a)
    \/ \E r \in RecipientIds : DeleteRecipient(u, r)
    \/ \E a \in AssetIds, r \in RecipientIds, p \in RequestedPercentages :
          InsertAllocation(u, a, r, p)
    \/ \E a \in AssetIds : DeleteAllocation(u, a)
    \/ \E table \in {"assets", "recipients", "asset_allocations"} : Select(u, table)

Deletions == \E t \in Tab :
    \/ \E id \in AssetIds : handleDeleteAsset(t, id)
    \/ \E id \in RecipientIds : handleDeleteRecipient(t, id)

(* Two users; the first has the asset page open in one tab and the          *)
(* recipients page in the other; the store is empty                         *)
InitStore ==
    /\ public_assets = {}
    /\ asset_allocations = EmptyBag
    /\ tabs = {"T1", "T2"}
    /\ assets = [t \in Tab |-> EmptyBag]
    /\ selectedAsset = [t \in Tab |-> NoAsset]
    /\ allocations = [t \in Tab |-> <<>>]
    /\ showAllocationModal = [t \in Tab |-> FALSE]
    /\ saving = [t \in Tab |-> FALSE]
    /\ pc = [t \in Tab |-> "idle"]
    /\ call = [t \in Tab |-> NoCall]
    /\ toasts = [t \in Tab |-> <<>>]
    /\ issued = [t \in Tab |-> {}]
    /\ faults = [t \in Tab |-> {}]
    /\ pre = [t \in Tab |-> EmptyBag]
    /\ clicked = [t \in Tab |-> "none"]
    /\ public_wills = <<>>
    /\ public_recipients = {}
    /\ assets_user_id = [a \in public_assets |-> user]
    /\ location = [t \in Tab |-> IF t = "T1" THEN "AssetManagement" ELSE "Recipients"]
    /\ wpc = [t \in Tab |-> "idle"]
    /\ existingWill = [t \in Tab |-> NoWill.id]
    /\ review = [t \in Tab |-> NoReview]
    /\ notified = [t \in Tab |-> NoRun]
    /\ InitApi

NextStore == Requests \/ Deletions

SpecStore == InitStore /\ [][NextStore]_vars

----------------------------------------------------------------------------
(* Commits and deletions: the asset page, its modal open on rows that pass  *)
(* validation, in one tab and the recipients page in the other               *)

InitDeletions ==
    /\ public_assets = AssetIds
    /\ asset_allocations = EmptyBag
    /\ tabs = {"T1", "T2"}
    /\ assets = [t \in Tab |-> EmptyBag]
    /\ \E a \in AssetIds :
          selectedAsset = [t \in Tab |-> IF t = "T1" THEN a ELSE NoAsset]
    /\ \E rows \in {r \in RowLists : Validate(r) = "ok"} :
          allocations = [t \in Tab |-> IF t = "T1" THEN rows ELSE <<>>]
    /\ showAllocationModal = [t \in Tab |-> t = "T1"]
    /\ saving = [t \in Tab |-> FALSE]
    /\ pc = [t \in Tab |-> "idle"]
    /\ call = [t \in Tab |-> NoCall]
    /\ toasts = [t \in Tab |-> <<>>]
    /\ issued = [t \in Tab |-> {}]
    /\ faults = [t \in Tab |-> {}]
    /\ pre = [t \in Tab |-> EmptyBag]
    /\ clicked = [t \in Tab |-> "none"]
    /\ public_wills = <<>>
    /\ public_recipients = {[id |-> r, user_id |-> user, email |-> "r@example.com"] : r \in RecipientIds}
    /\ assets_user_id = [a \in public_assets |-> user]
    /\ location = [t \in Tab |-> IF t = "T1" THEN "AssetManagement" ELSE "Recipients"]
    /\ wpc = [t \in Tab |-> "idle"]
    /\ existingWill = [t \in Tab |-> NoWill.id]
    /\ review = [t \in Tab |-> NoReview]
    /\ notified = [t \in Tab |-> NoRun]
    /\ InitApi

NextDeletions == Save \/ Deletions

SpecDeletions == InitDeletions /\ [][NextDeletions]_vars

----------------------------------------------------------------------------
(* What the properties speak of *)

(* The call of page t has returned *)
Ended(t) == t \in tabs /\ pc[t] = "idle" /\ call[t] # NoCall

ValidationToasts == {<<MsgNotComplete>>, <<MsgInvalidPercentage>>}

(* A percentage string that is a number, and its value *)
IsNumber(s) == s \in {"0", "-50", "150", "50", "100"}
ValueOf(s) == IF IsNumber(s) THEN parseFloat(s).v ELSE 0

RECURSIVE Total(_)
Total(rows) ==
    IF rows = <<>> THEN 0 ELSE ValueOf(Head(rows).percentage) + Total(Tail(rows))

SumsTo100(rows) ==
    /\ \A i \in DOMAIN rows : IsNumber(rows[i].percentage)
    /\ Total(rows) = 100000

(* Empty, not a number, <= 0 or > 100 *)
BadPercentage(s) == ~IsNumber(s) \/ ValueOf(s) <= 0 \/ ValueOf(s) > 100000
HasBadPercentage(rows) == \E i \in DOMAIN rows : BadPercentage(rows[i].percentage)

HasDuplicateRecipient(rows) ==
    \E i, j \in DOMAIN rows : i # j /\ rows[i].recipientId = rows[j].recipientId

(* LoadAllocations: the (recipient, percentage) pairs stored for an asset *)
Pairs(table) ==
    LET pair(r) == [recipientId |-> r.recipient_id, percentage |-> r.allocation_percentage]
        ps == {pair(r) : r \in BagToSet(table)}
    IN  [p \in ps |-> BagCardinality([r \in {x \in BagToSet(table) : pair(x) = p} |-> table[r]])]
LoadAllocations(a) == Pairs(RowsOfAsset(asset_allocations, a))

(* The (recipient, percentage) pairs a call submitted *)
Submitted(t) ==
    BagOfSeq([i \in DOMAIN call[t].rows |->
        [recipientId |-> call[t].rows[i].recipientId,
         percentage |-> ValueOf(call[t].rows[i].percentage)]])

WriteFailed(t) == \E f \in faults[t] : f.request \in {"delete", "insert"}

----------------------------------------------------------------------------
(* C1: whenever saveAllocations is in its write phase (or past it) with a
   non-empty row list, every percentage is a number and they sum to exactly
   100; and a call that returned with a non-empty list whose sum is not 100
   was rejected by validation, issued no write and left the table as it was. *)
C1_WritePhaseSumsTo100 ==
    \A t \in tabs :
        /\ (pc[t] # "idle" /\ call[t].rows # <<>>) => SumsTo100(call[t].rows)
        /\ (Ended(t) /\ call[t].rows # <<>> /\ ~SumsTo100(call[t].rows)) =>
              /\ toasts[t] \in ValidationToasts
              /\ issued[t] = {}
              /\ asset_allocations = pre[t]

(* A call with two rows is about to insert them *)
C1_Witness ==
    \E t \in tabs : pc[t] = "insert" /\ Len(call[t].rows) = 2

(* C2: after a call for asset A has returned, the stored rows of A are the
   rows stored before the call or the submitted rows. *)
C2_AtomicReplace ==
    \A t \in tabs :
        Ended(t) =>
            \/ LoadAllocations(call[t].asset) = Pairs(RowsOfAsset(pre[t], call[t].asset))
            \/ LoadAllocations(call[t].asset) = Submitted(t)

(* C3: a call whose rows have a bad percentage, a duplicate recipient or a
   sum other than 100 has, when it returns, been rejected by validation,
   issued no delete and no insert and left every stored row as it was. *)
C3_InvalidRowsWriteNothing ==
    \A t \in tabs :
        (/\ Ended(t)
         /\ \/ HasBadPercentage(call[t].rows)
            \/ HasDuplicateRecipient(call[t].rows)
            \/ (call[t].rows # <<>> /\ Total(call[t].rows) # 100000)) =>
            /\ toasts[t] \in ValidationToasts
            /\ issued[t] = {}
            /\ asset_allocations = pre[t]

(* C4: a call whose rows name one recipient twice is rejected by validation:
   it never enters the write phase and issues no delete. *)
C4_DuplicateRecipientRejected ==
    \A t \in tabs :
        HasDuplicateRecipient(call[t].rows) =>
            /\ pc[t] = "idle"
            /\ toasts[t] \in ValidationToasts
            /\ "delete" \notin issued[t]

(* C5: no two stored allocation rows have the same (asset, recipient). *)
C5_UniqueAssetRecipient ==
    \A r1 \in BagToSet(asset_allocations) :
        /\ CopiesIn(r1, asset_allocations) = 1
        /\ \A r2 \in BagToSet(asset_allocations) : SamePair(r1, r2) => r1 = r2

(* The table has refused an insert that would have repeated a pair *)
C5_Witness ==
    \E t \in tabs : [request |-> "insert", error |-> "23505"] \in faults[t]

(* C6: after a call that reported success, loading the asset's allocations
   gives exactly the submitted pairs. *)
C6_RoundTrip ==
    \A t \in tabs :
        (Ended(t) /\ MsgSaved \in Range(toasts[t])) =>
            LoadAllocations(call[t].asset) = Submitted(t)

(* C7: a call whose delete or insert failed reports the persistence failure,
   never success, and leaves the modal open. *)
C7_WriteFailureReported ==
    \A t \in tabs :
        (Ended(t) /\ WriteFailed(t)) =>
            /\ MsgFailed \in Range(toasts[t])
            /\ MsgSaved \notin Range(toasts[t])
            /\ showAllocationModal[t]

(* C8 as stated: a returned call with a bad percentage in its rows was
   rejected with the InvalidPercentage toast. *)
C8_BadPercentageIsInvalidPercentage ==
    \A t \in tabs :
        (Ended(t) /\ HasBadPercentage(call[t].rows)) =>
            toasts[t] = <<MsgInvalidPercentage>>

(* C8 amended: a call with a bad percentage in its rows never enters the
   write phase, issues no write and leaves the table as it was; it is
   rejected with the InvalidPercentage toast when the numeric percentages
   total exactly 100 and with the AllocationNotComplete toast otherwise. *)
C8_BadPercentageRejected ==
    \A t \in tabs :
        (call[t] # NoCall /\ HasBadPercentage(call[t].rows)) =>
            /\ pc[t] = "idle"
            /\ issued[t] = {}
            /\ asset_allocations = pre[t]
            /\ toasts[t] = IF Total(call[t].rows) = 100000
                           THEN <<MsgInvalidPercentage>>
                           ELSE <<MsgNotComplete>>

(* A call was rejected with the InvalidPercentage toast for a percentage of 0 *)
C8_Witness ==
    \E t \in tabs :
        /\ Ended(t)
        /\ \E i \in DOMAIN call[t].rows : call[t].rows[i].percentage = "0"
        /\ toasts[t] = <<MsgInvalidPercentage>>

(* C9: a call with no rows passes validation, and once it has reported
   success the asset has no stored rows. *)
C9_EmptySetClears ==
    \A t \in tabs :
        (Ended(t) /\ call[t].rows = <<>>) =>
            /\ toasts[t] \notin ValidationToasts
            /\ MsgSaved \in Range(toasts[t]) =>
                  LoadAllocations(call[t].asset) = EmptyBag

(* C10: when two pages have each completed a call for the same asset with no
   failed request, the stored rows of the asset are the rows of one of the
   two calls. *)
C10_OneCallWins ==
    (/\ Ended("T1") /\ Ended("T2")
     /\ call["T1"].asset = call["T2"].asset
     /\ faults["T1"] = {} /\ faults["T2"] = {}
     /\ MsgSaved \in Range(toasts["T1"]) /\ MsgSaved \in Range(toasts["T2"])) =>
        \/ LoadAllocations(call["T1"].asset) = Submitted("T1")
        \/ LoadAllocations(call["T1"].asset) = Submitted("T2")

----------------------------------------------------------------------------
(* What the properties of the wills speak of *)

Rank(status) == CHOOSE i \in DOMAIN will_status : will_status[i] = status
WillIds == {public_wills[i].id : i \in DOMAIN public_wills}
StatusOf(table, id) ==
    LET i == CHOOSE j \in DOMAIN table : table[j].id = id
    IN table[i].status
Completed(table) == {table[i].id : i \in {j \in DOMAIN table : table[j].status = "completed"}}
Finalized(t) == location[t] = "Confirmation"

(* C11: the status of a will never moves backward in the order draft,      *)
(* in_progress, review, completed: whatever step is taken, every will that  *)
(* was stored keeps its status or moves it forward, so that saving content  *)
(* again leaves a completed will completed.                                 *)
C11_StatusNeverMovesBackward ==
    [][\A id \in WillIds :
         Rank(StatusOf(public_wills', id)) >= Rank(StatusOf(public_wills, id))]_vars

(* C12: once the status update of Finalize has succeeded, the will is      *)
(* completed for the rest of the call and after it, and whatever the        *)
(* notification did (an error, no mail or only some mails sent) the tab     *)
(* ends on the confirmation page.                                           *)
C12_CompletedWhateverNotification ==
    \A t \in tabs :
        /\ (wpc[t] = "notify" \/ Finalized(t)) =>
               StatusOf(public_wills, review[t].will.id) = "completed"
        /\ notified[t].invoked => Finalized(t)

C12_Witness ==
    \E t \in tabs :
        /\ Finalized(t)
        /\ notified[t].invoked
        /\ notified[t].response.status = 500

(* C13: a will is written completed, and the notifier is invoked, only by  *)
(* a call made after the acknowledgment was ticked and holding a will whose *)
(* row exists; a call of handleSubmit that holds no will changes no row and *)
(* invokes nothing.                                                         *)
C13_FinalizeNeedsAcknowledgmentAndWill ==
    [][\A t \in tabs :
         /\ (wpc[t] = "update" /\ Completed(public_wills') # Completed(public_wills)) =>
                /\ review[t].agreed
                /\ review[t].will.id \in WillIds
         /\ (notified'[t].invoked /\ ~notified[t].invoked) =>
                /\ review[t].agreed
                /\ review[t].will.id \in WillIds
         /\ (review[t].will = NoWill /\ toasts'[t] = <<MsgNoWill>>) =>
                /\ public_wills' = public_wills
                /\ ~notified'[t].invoked]_vars

C13_Witness ==
    \E t \in tabs :
        /\ toasts[t] = <<MsgNoWill>>
        /\ review[t].agreed
        /\ review[t].will = NoWill

(* C14, as the specification states it: a will is completed only while its *)
(* owner has an asset and a recipient.                                      *)
C14_CompletedNeedsAssetsAndRecipients ==
    \A i \in DOMAIN public_wills :
        public_wills[i].status = "completed" =>
            /\ \E a \in public_assets : assets_user_id[a] = public_wills[i].user_id
            /\ \E r \in public_recipients : r.user_id = public_wills[i].user_id

(* C14, amended: Finalize completes the will of a page that holds a will   *)
(* and whose acknowledgment is ticked, whether or not the owner has assets  *)
(* or recipients; the recipients only decide whether the notifier is        *)
(* invoked (it is, exactly when the page holds at least one).               *)
C14_CompletedNeedsOnlyWill ==
    \A t \in tabs :
        Finalized(t) =>
            /\ review[t].will # NoWill
            /\ review[t].agreed
            /\ notified[t].invoked <=> (review[t].recipients > 0)

C14_Witness ==
    \E t \in tabs :
        /\ Finalized(t)
        /\ public_assets = {}
        /\ public_recipients = {}
        /\ StatusOf(public_wills, review[t].will.id) = "completed"

(* C15: a run of the notifier that reached the recipients makes exactly one *)
(* send for each recipient of the owner with a non-empty email and none for *)
(* the others, and answers 200 with total = the number of sends and sent =  *)
(* the number of them that succeeded, whatever the single sends did.        *)
Mailable(u) == {r.id : r \in {x \in public_recipients : x.user_id = u /\ x.email \notin {Null, ""}}}
SendsTo(run, r) == BagSum(run.sends, {s \in BagToSet(run.sends) : s.recipient = r})
Accepted(run) == BagSum(run.sends, {s \in BagToSet(run.sends) : s.outcome = "accepted"})

C15_OneSendPerEmailedRecipient ==
    \A t \in tabs :
        (notified[t].invoked /\ notified[t].response.status # 500) =>
            /\ \A r \in RecipientIds :
                   SendsTo(notified[t], r) = IF r \in Mailable(user) THEN 1 ELSE 0
            /\ notified[t].response.status = 200
            /\ notified[t].response.hasTotal
            /\ notified[t].response.total = BagCardinality(notified[t].sends)
            /\ notified[t].response.sent = Accepted(notified[t])

(* C16: calls of SaveContent made one after the other leave the owner with *)
(* at most one will of each type.                                           *)
C16_OneWillPerTypeSequential ==
    \A type \in {"chat", "video"} : Len(WillsOfType(user, type)) <= 1

(* C17: two calls of SaveContent whose lookups and writes interleave leave  *)
(* every owner with at most one will of each type.                          *)
C17_OneWillPerTypeInterleaved ==
    \A u \in Users : \A type \in {"chat", "video"} :
        Cardinality({i \in DOMAIN public_wills :
                        public_wills[i].user_id = u /\ public_wills[i].type = type}) <= 1

(* C18: every stored allocation row references an asset and a recipient    *)
(* that are stored: deleting an asset removes its allocation rows, deleting *)
(* a recipient removes the rows that reference it.                          *)
C18_AllocationsReferenceStoredRows ==
    \A row \in BagToSet(asset_allocations) :
        /\ row.asset_id \in public_assets
        /\ row.recipient_id \in StoredRecipients

C18_Witness ==
    /\ request.op = "delete"
    /\ request.table = "recipients"
    /\ request.cascaded > 0

(* C19: a request of one user reaches only rows of that user: what a       *)
(* select returns belongs to the user who sent it, and a step taken by one  *)
(* user leaves the assets, the recipients and the allocation rows of every  *)
(* other user as they were.                                                 *)
AssetsOf(u) == {a \in public_assets : assets_user_id[a] = u}
RecipientsOf(u) == {x \in public_recipients : x.user_id = u}
AllocationsOf(u) ==
    [x \in {y \in BagToSet(asset_allocations) :
               y.asset_id \in public_assets /\ assets_user_id[y.asset_id] = u}
        |-> asset_allocations[x]]

C19_RowIsolation ==
    [][/\ received'.owners \subseteq {received'.to}
       /\ \A v \in Users \ {request'.by} :
             request'.by # Null =>
                /\ AssetsOf(v)' = AssetsOf(v)
                /\ RecipientsOf(v)' = RecipientsOf(v)
                /\ AllocationsOf(v)' = AllocationsOf(v)]_vars

(* C20: the asset and the recipient of a stored allocation row belong to   *)
(* the same user.                                                           *)
C20_AllocationWithinOneOwner ==
    \A row \in BagToSet(asset_allocations) :
        \A a \in public_assets : \A x \in public_recipients :
            (row.asset_id = a /\ row.recipient_id = x.id) => assets_user_id[a] = x.user_id

----------------------------------------------------------------------------
(* The edit buffer, the cache of the page, the saving flag *)

StepOf(t) ==
    <<allocations[t], clicked[t], toasts[t], call[t], pc[t]>>'
        # <<allocations[t], clicked[t], toasts[t], call[t], pc[t]>>
Removal(t) == StepOf(t) /\ clicked'[t] = "removeAllocationRow"

(* C21: a call of removeAllocationRow drops the row at its index and       *)
(* nothing else: it shows no validation message, even when the rows that    *)
(* are left do not total 100, and leaves the stored rows and the page's     *)
(* copy of them as they were; the stored rows change only in the write      *)
(* steps of a saveAllocations call.                                         *)
C21_RemoveRowTouchesOnlyTheBuffer ==
    [][/\ \A t \in tabs :
            Removal(t) =>
                /\ \E index \in DOMAIN allocations[t] :
                       allocations'[t] = Without(allocations[t], index)
                /\ toasts'[t] = <<>>
                /\ asset_allocations' = asset_allocations
                /\ assets' = assets
       /\ asset_allocations' # asset_allocations =>
              \E t \in tabs : pc[t] \in {"delete", "insert"}]_vars

C21_Witness ==
    \E t \in tabs :
        /\ clicked[t] = "removeAllocationRow"
        /\ Len(allocations[t]) > 0
        /\ getTotalPercentage(allocations[t]) # 100000

(* C22: the edit buffer of a page never holds two rows with the same        *)
(* recipient, whatever the user does with the modal: a row is added only    *)
(* for a recipient without a row, and a row's recipient cannot be changed   *)
(* to one that another row holds.                                           *)
C22_NoDuplicateRecipientInBuffer ==
    \A t \in tabs : ~HasDuplicateRecipient(allocations[t])

C22_Witness ==
    \E t \in tabs :
        /\ showAllocationModal[t]
        /\ Len(allocations[t]) = Len(recipients)
        /\ allocations[t][1].recipientId = recipients[2]

----------------------------------------------------------------------------
(* Finalize again, its order of requests, the statuses it writes *)

(* The page of t holds a will that was completed when the page loaded it *)
Repeated(t) == review[t].will # NoWill /\ review[t].will.status = "completed"

(* C23: Finalize of a will that is already completed is carried out like   *)
(* the first: its status update writes completed again, and the notifier   *)
(* is invoked once more whenever the page holds a recipient; no step looks  *)
(* at the status the will had.                                              *)
C23_FinalizeAgainNotifiesAgain ==
    [][\A t \in tabs :
         /\ (Repeated(t) /\ wpc[t] = "update" /\ wpc'[t] = "notify") =>
                StatusOf(public_wills', review[t].will.id) = "completed"
         /\ (Repeated(t) /\ wpc[t] = "notify" /\ wpc'[t] = "idle") =>
                /\ StatusOf(public_wills', review[t].will.id) = "completed"
                /\ notified'[t].invoked <=> (review[t].recipients > 0)
                /\ Finalized(t)']_vars

C23_Witness ==
    \E t \in tabs :
        /\ Repeated(t)
        /\ Finalized(t)
        /\ notified[t].invoked
        /\ notified[t].response.sent > 0

(* C24: every stored allocation row has a percentage above 0 and of 100 at *)
(* most, whatever was asked of the store.                                   *)
C24_StoredPercentageInRange ==
    \A x \in BagToSet(asset_allocations) :
        x.allocation_percentage > 0 /\ x.allocation_percentage <= 100000

C24_Witness ==
    /\ request.op = "insert"
    /\ request.table = "asset_allocations"
    /\ request.error = "23514"
    /\ BagToSet(asset_allocations) # {}

(* The percentages stored for asset a, added up *)
RECURSIVE SumOver(_, _)
SumOver(table, S) ==
    IF S = {} THEN 0
    ELSE LET x == CHOOSE y \in S : TRUE
         IN table[x] * x.allocation_percentage + SumOver(table, S \ {x})
StoredTotal(a) == SumOver(asset_allocations, BagToSet(RowsOfAsset(asset_allocations, a)))

(* C25: whatever commits and deletions of assets and recipients were made,  *)
(* each asset has no stored row or stored rows that add up to exactly 100.   *)
C25_HundredOrEmptyAlways ==
    \A a \in AssetIds :
        RowsOfAsset(asset_allocations, a) = EmptyBag \/ StoredTotal(a) = 100000

(* C26: once a call of saveAllocations has returned, whether it saved, was  *)
(* rejected by validation or failed in the store, the allocations of the     *)
(* asset in the page's list of assets are the rows stored for the asset.     *)
C26_CacheEqualsStoreAfterSave ==
    \A t \in tabs :
        Ended(t) =>
            RowsOfAsset(assets[t], call[t].asset)
                = RowsOfAsset(asset_allocations, call[t].asset)

(* C27: in a call of handleSubmit the notifier is invoked, and the tab      *)
(* taken to the confirmation page, only once the status update has made     *)
(* the will completed; a status update that fails ends the call on the      *)
(* review page with no row changed and nothing invoked.                      *)
C27_NotificationAfterStatusUpdate ==
    [][\A t \in tabs :
         /\ (wpc[t] = "update" /\ toasts'[t] = <<MsgFinalizeFailed>>) =>
                /\ wpc'[t] = "idle"
                /\ location'[t] = "ReviewWill"
                /\ public_wills' = public_wills
                /\ ~notified'[t].invoked
         /\ ((notified'[t].invoked /\ ~notified[t].invoked)
               \/ (Finalized(t)' /\ ~Finalized(t))) =>
                /\ wpc[t] = "notify"
                /\ toasts[t] # <<MsgFinalizeFailed>>
                /\ StatusOf(public_wills, review[t].will.id) = "completed"]_vars

C27_Witness ==
    \E t \in tabs :
        /\ toasts[t] = <<MsgFinalizeFailed>>
        /\ location[t] = "ReviewWill"
        /\ ~notified[t].invoked
        /\ review[t].recipients > 0
        /\ StatusOf(public_wills, review[t].will.id) = "in_progress"

(* The status update of the call of page t goes through in this step *)
StatusUpdated(t) == wpc[t] = "update" /\ wpc'[t] = "notify"

Row(table, id) == table[CHOOSE j \in DOMAIN table : table[j].id = id]

(* Every stored will but the one with this id is stored as it was *)
OthersKept(id) ==
    /\ {public_wills'[i].id : i \in DOMAIN public_wills'} = WillIds
    /\ \A other \in WillIds \ {id} : Row(public_wills', other) = Row(public_wills, other)

(* No two stored wills of one owner have the same type *)
OneWillPerType ==
    \A i, j \in DOMAIN public_wills :
        (i # j /\ public_wills[i].user_id = public_wills[j].user_id) =>
            public_wills[i].type # public_wills[j].type

(* C28, as stated: the status update of Finalize writes the will that is   *)
(* the owner's most recently updated one, and leaves every other will as    *)
(* it was (looked at while the owner has one will of a type at most).       *)
C28_FinalizeWritesLatestWill ==
    [][\A t \in tabs :
         (StatusUpdated(t) /\ OneWillPerType) =>
            /\ review[t].will.id = Head(WillsOf(user)).id
            /\ OthersKept(review[t].will.id)]_vars

(* C28, amended: the review page takes the owner's most recently updated   *)
(* will when it loads, and the status update of Finalize writes that will,  *)
(* completed and most recently updated from then on, whichever will is the  *)
(* most recently updated one by then; every other will is left as it was.   *)
C28_FinalizeWritesLoadedWill ==
    [][\A t \in tabs :
         /\ (review'[t] # review[t] /\ review'[t].will # NoWill /\ ~review'[t].agreed
               /\ review[t].will = NoWill) =>
                review'[t].will = Head(WillsOf(user))
         /\ StatusUpdated(t) =>
                /\ Head(public_wills') = [review[t].will EXCEPT !.status = "completed"]
                /\ OthersKept(review[t].will.id)]_vars

C28_Witness ==
    \E t \in tabs :
        /\ wpc[t] = "notify"
        /\ Len(WillsOf(user)) = 2
        /\ Head(WillsOf(user)).id = review[t].will.id
        /\ review[t].will.status = "in_progress"
        /\ \E i \in DOMAIN public_wills :
              public_wills[i].id # review[t].will.id /\ public_wills[i].status = "in_progress"

(* C29: no step writes the status draft or review: a will that a step       *)
(* creates is stored in_progress, and after every step each stored will is   *)
(* in_progress or completed.                                                 *)
C29_OnlyInProgressAndCompleted ==
    [][\A i \in DOMAIN public_wills' :
         /\ public_wills'[i].status \in {"in_progress", "completed"}
         /\ public_wills'[i].id \notin WillIds => public_wills'[i].status = "in_progress"]_vars

C29_Witness ==
    /\ \E i \in DOMAIN public_wills : public_wills[i].status = "in_progress"
    /\ \E i \in DOMAIN public_wills : public_wills[i].status = "completed"

(* C30: the saving flag of a page is set exactly while a call of           *)
(* saveAllocations is in its write phase (from its first request until it   *)
(* returns); once a call has returned, saved, failed or rejected, the flag  *)
(* is down and the page takes the next call.                                *)
C30_SavingOnlyDuringWritePhase ==
    \A t \in tabs :
        /\ saving[t] <=> pc[t] \in {"delete", "insert", "fetch"}
        /\ Ended(t) => (~saving[t] /\ Idle(t))

C30_Witness ==
    \E t \in tabs :
        /\ Ended(t)
        /\ WriteFailed(t)
        /\ toasts[t] = <<MsgFailed>>
        /\ ~saving[t]

====
